---- MODULE Spec2Model ----
(***************************************************************************)
(* Model of Name2Pdf.py: the PDF renamer (PdfRenamerApp).                  *)
(*                                                                         *)
(* Strings are sequences of one-character strings, so that sanitising,    *)
(* stripping, truncating and suffixing are computed character by           *)
(* character as the Python code computes them.                             *)
(***************************************************************************)
EXTENDS Integers, Sequences, FiniteSets, TLC

VARIABLES
    \* --- application object (PdfRenamerApp) ---
    max_filename_length, \* self.max_filename_length (config)
    is_processing,       \* self.is_processing
    total_files,         \* self.total_files
    processed_files,     \* self.processed_files
    reset_pending,       \* _reset_ui scheduled with root.after, not yet run
    runs,                \* number of worker threads started so far
    in_place,            \* self.in_place, the "in-place" check box
    output_path,         \* self.output_path: "" (none chosen), "in" (the
                         \* input folder) or "out" (another folder)
    input_path,          \* self.input_path: "" (none chosen), "missing",
                         \* "file" (not a directory) or "in" (the input folder)
    start_dialog,        \* the message box the latest start_renaming_thread
                         \* call showed, "none" when it showed none
    \* --- file system ---
    inDir,               \* input folder: entry name -> file content
    outDir,              \* the other folder: entry name -> file content
    out_exists,          \* whether the other folder exists
    \* --- run_renaming_process (worker thread) ---
    pc,                  \* position of the worker
    output_folder,       \* "in" (same folder as the input) or "out"
    is_inplace,
    pdf_files,           \* the work list
    idx,                 \* number of work-list entries taken so far
    file_path,           \* name of the entry being processed
    title,
    new_name,
    rename_count,
    skip_count,
    error_count,
    log,                 \* per-file log_message events of this run
    dialogs,             \* messagebox calls of this run
    start_input,         \* input folder as it was when the run started
    \* --- sanitize_filename call ---
    name,                \* argument of the latest sanitize_filename call
    sanitized,           \* its return value, None before the call returns
    \* --- extract_title_from_pdf call ---
    page1_text,          \* text of page 1 of the document under study
    extracted            \* the title returned for it, Pending before the return

appVars == <<max_filename_length, is_processing, total_files, processed_files,
             reset_pending, runs, in_place, output_path, input_path,
             start_dialog>>
fsVars == <<inDir, outDir, out_exists>>
workerVars == <<pc, output_folder, is_inplace, pdf_files, idx, file_path,
                title, new_name, rename_count, skip_count, error_count,
                log, dialogs, start_input>>
sanVars == <<name, sanitized>>
extVars == <<page1_text, extracted>>
vars == <<appVars, fsVars, workerVars, sanVars, extVars>>

----------------------------------------------------------------------------
(* Bounds of the model *)

\* longest raw name handed to sanitize_filename in SanSpec
MaxNameLen == 3

\* most PDF files the input folder holds when the application starts
MaxFiles == 3

\* most lines of the page texts ExtSpec enumerates
MaxLines == 4

\* DEFAULT_CONFIG["settings"]["max_filename_length"]
DefaultMaxLength == 255

----------------------------------------------------------------------------
(* Python string primitives *)

\* Python's None (never equal to a sequence of characters)
None == << "<None>" >>

\* the value of a result variable while the call has not returned
Pending == << "<pending>" >>

\* characters str.strip()/str.rstrip() remove when called without argument
Whitespace == {" ", "\t", "\n"}

\* the character class of the regular expression in sanitize_filename
IllegalChars == {"\\", "/", ":", "*", "?", "\"", "<", ">", "|"}

\* the literal returned for an empty result: "Untitled Manual"
UntitledManual ==
    <<"U","n","t","i","t","l","e","d"," ","M","a","n","u","a","l">>

\* a substitution that puts an underscore in place of each illegal character
RECURSIVE ReSubIllegal_Substitutes(_)
ReSubIllegal_Substitutes(s) ==
    IF s = <<>> THEN <<>>
    ELSE IF Head(s) \in IllegalChars
         THEN <<"_">> \o ReSubIllegal_Substitutes(Tail(s))
    ELSE <<Head(s)>> \o ReSubIllegal_Substitutes(Tail(s))

\* re.sub(r'[\\/:*?"<>|]', "", s): delete every character of the class
RECURSIVE ReSubIllegal(_)
ReSubIllegal(s) ==
    IF s = <<>> THEN <<>>
    ELSE IF Head(s) \in IllegalChars THEN ReSubIllegal(Tail(s))
    ELSE <<Head(s)>> \o ReSubIllegal(Tail(s))

\* s.lstrip(chars)
RECURSIVE LStrip(_, _)
LStrip(s, chars) ==
    IF s # <<>> /\ Head(s) \in chars THEN LStrip(Tail(s), chars) ELSE s

\* s.rstrip(chars)
RECURSIVE RStrip(_, _)
RStrip(s, chars) ==
    IF s # <<>> /\ s[Len(s)] \in chars
    THEN RStrip(SubSeq(s, 1, Len(s) - 1), chars)
    ELSE s

\* s.strip(chars)
Strip(s, chars) == RStrip(LStrip(s, chars), chars)

\* s[:n] for n >= 0
Prefix(s, n) == IF n >= Len(s) THEN s ELSE SubSeq(s, 1, n)

----------------------------------------------------------------------------
(* PdfRenamerApp.sanitize_filename *)

\* sanitize_filename without the final "ensure not empty" fallback
sanitize_filename_NoFallback(raw, maxlen) ==
    IF raw = <<>> THEN UntitledManual
    ELSE LET s1 == ReSubIllegal(raw)
             s2 == Strip(s1, {" ", "."})
         IN  IF Len(s2) > maxlen
             THEN RStrip(Prefix(s2, maxlen), Whitespace)
             ELSE s2

sanitize_filename(raw, maxlen) ==
    IF raw = <<>> THEN UntitledManual
    ELSE LET s1 == ReSubIllegal(raw)
             s2 == Strip(s1, {" ", "."})
             s3 == IF Len(s2) > maxlen
                   THEN RStrip(Prefix(s2, maxlen), Whitespace)
                   ELSE s2
         IN  IF s3 # <<>> THEN s3 ELSE UntitledManual

----------------------------------------------------------------------------
(* More string primitives *)

\* str.lower() on the letters the model uses
Lower(c) ==
    CASE c = "T" -> "t" [] c = "I" -> "i" [] c = "L" -> "l"
      [] c = "E" -> "e" [] c = "P" -> "p" [] c = "D" -> "d"
      [] c = "F" -> "f" [] c = "A" -> "a"
      [] OTHER -> c

LowerStr(s) == [i \in 1..Len(s) |-> Lower(s[i])]

\* index of the first occurrence of c in s, 0 if there is none
RECURSIVE IndexOf(_, _, _)
IndexOf(s, c, from) ==
    IF from > Len(s) THEN 0
    ELSE IF s[from] = c THEN from
    ELSE IndexOf(s, c, from + 1)

\* s.split('\n')
RECURSIVE SplitLines(_)
SplitLines(s) ==
    LET k == IndexOf(s, "\n", 1)
    IN  IF k = 0 THEN <<s>>
        ELSE <<SubSeq(s, 1, k - 1)>> \o SplitLines(SubSeq(s, k + 1, Len(s)))

\* str(n) for n >= 0
Digit(d) == <<"0","1","2","3","4","5","6","7","8","9">>[d + 1]

RECURSIVE DecStr(_)
DecStr(n) == IF n < 10 THEN <<Digit(n)>>
             ELSE DecStr(n \div 10) \o <<Digit(n % 10)>>

DotPdf == <<".","p","d","f">>

\* Path.suffix: from the last dot on, empty when there is no dot after the
\* first character
RECURSIVE LastIndexOf(_, _, _)
LastIndexOf(s, c, from) ==
    IF from < 1 THEN 0
    ELSE IF s[from] = c THEN from
    ELSE LastIndexOf(s, c, from - 1)

Suffix(n) ==
    LET k == LastIndexOf(n, ".", Len(n))
    IN  IF k <= 1 \/ k = Len(n) THEN <<>> ELSE SubSeq(n, k, Len(n))

----------------------------------------------------------------------------
(* PdfRenamerApp.extract_title_from_pdf *)

\* A document is [parse, pages, text]: parse = "error" when PdfReader raises,
\* pages the number of pages, text what pages[0].extract_text() returns.

\* a scan that takes the line after the label even when it is empty
NextNonEmpty_NoSkip(lines, j) ==
    IF j > Len(lines) THEN None ELSE Strip(lines[j], Whitespace)

\* the scan of lines 805-817 over the text of page 1
RECURSIVE NextNonEmpty(_, _)
NextNonEmpty(lines, j) ==
    IF j > Len(lines) THEN None
    ELSE IF Strip(lines[j], Whitespace) # <<>> THEN Strip(lines[j], Whitespace)
    ELSE NextNonEmpty(lines, j + 1)

RECURSIVE FindTitle(_, _)
FindTitle(lines, i) ==
    IF i > Len(lines) THEN None
    ELSE IF LowerStr(lines[i]) = <<"t","i","t","l","e">>
         THEN NextNonEmpty(lines, i + 1)
    ELSE FindTitle(lines, i + 1)

TitleOfText(text) ==
    IF text = <<>> THEN None
    ELSE LET raw == SplitLines(text)
             lines == [i \in 1..Len(raw) |-> Strip(raw[i], Whitespace)]
         IN  FindTitle(lines, 1)

\* extract_title_from_pdf with a handler that swallows the exception
extract_title_from_pdf_Swallows(doc) ==
    IF doc.parse = "error" THEN [raised |-> FALSE, value |-> None]
    ELSE IF doc.pages = 0 THEN [raised |-> FALSE, value |-> None]
    ELSE [raised |-> FALSE, value |-> TitleOfText(doc.text)]

\* result of the call: raised = TRUE when the exception is re-raised
extract_title_from_pdf(doc) ==
    IF doc.parse = "error" THEN [raised |-> TRUE, value |-> None]
    ELSE IF doc.pages = 0 THEN [raised |-> FALSE, value |-> None]
    ELSE [raised |-> FALSE, value |-> TitleOfText(doc.text)]

----------------------------------------------------------------------------
(* The file system *)

EmptyDir == [n \in {} |-> None]

\* the folder output_folder denotes
Target == IF output_folder = "in" THEN inDir ELSE outDir

Exists(dir, n) == n \in DOMAIN dir

\* dir with entry n holding content c
WithFile(dir, n, c) ==
    [m \in DOMAIN dir \cup {n} |-> IF m = n THEN c ELSE dir[m]]

\* dir after entry old was renamed to new
Renamed(dir, old, new) ==
    [m \in (DOMAIN dir \ {old}) \cup {new} |->
        IF m = new THEN dir[old] ELSE dir[m]]

\* lines 702-710: the first of base.pdf, base (1).pdf, base (2).pdf, ...
\* that does not exist in dir
RECURSIVE NextFree(_, _, _)
NextFree(dir, base, counter) ==
    LET n == base \o <<" ","(">> \o DecStr(counter) \o <<")">> \o DotPdf
    IN  IF Exists(dir, n) THEN NextFree(dir, base, counter + 1) ELSE n

\* name resolution without the loop over taken names
ResolveName_NoLoop(dir, base) == base \o DotPdf

\* name resolution whose counter starts at 2
ResolveName_FromTwo(dir, base) ==
    IF Exists(dir, base \o DotPdf) THEN NextFree(dir, base, 2)
    ELSE base \o DotPdf

\* name resolution with an "if" where the code has "while": the name
\* with counter 1 is taken without a look at the folder
ResolveName_OneStep(dir, base) ==
    IF Exists(dir, base \o DotPdf)
    THEN base \o <<" ", "(">> \o DecStr(1) \o <<")">> \o DotPdf
    ELSE base \o DotPdf

ResolveName(dir, base) ==
    IF Exists(dir, base \o DotPdf) THEN NextFree(dir, base, 1)
    ELSE base \o DotPdf

----------------------------------------------------------------------------
(* Initial folders *)

Alpha == <<"A","l","p","h","a">>

DocCorrupt == [parse |-> "error", pages |-> 0, text |-> <<>>]
\* "Intro"
DocNoLabel == [parse |-> "ok", pages |-> 1, text |-> <<"I","n","t","r","o">>]
\* "Title\nAlpha"
DocAlpha ==
    [parse |-> "ok", pages |-> 1,
     text |-> <<"T","i","t","l","e","\n">> \o Alpha]
\* "title\n\n Alpha (1)"
DocAlpha1 ==
    [parse |-> "ok", pages |-> 1,
     text |-> <<"t","i","t","l","e","\n","\n"," ">> \o Alpha
                 \o <<" ","(","1",")">>]

Docs == {DocCorrupt, DocNoLabel, DocAlpha, DocAlpha1}

\* names a PDF of the input folder may have at the start
InNames == { Alpha \o DotPdf,
             <<"x">> \o DotPdf,
             <<"y",".","P","D","F">>,
             <<"z">> \o DotPdf }

\* an entry of the input folder that is not a PDF file
NotesTxt == <<"n",".","t","x","t">>

\* a file: its document and the identity of its bytes
File(n, d) == [doc |-> d, bytes |-> n]

InitialInDirs ==
    UNION { { WithFile([n \in S |-> File(n, f[n])], NotesTxt,
                       File(NotesTxt, DocNoLabel)) : f \in [S -> Docs] } :
            S \in {T \in SUBSET InNames : Cardinality(T) <= MaxFiles} }

\* the other folder when it exists at the start: it holds an Alpha.pdf
InitialOutDir ==
    WithFile(EmptyDir, Alpha \o DotPdf, File(<<"o","l","d">>, DocNoLabel))

Init ==
    /\ max_filename_length = DefaultMaxLength
    /\ is_processing = FALSE
    /\ total_files = 0
    /\ processed_files = 0
    /\ reset_pending = FALSE
    /\ runs = 0
    /\ input_path = "in"
    /\ start_dialog = "none"
    /\ in_place \in BOOLEAN
    /\ output_path = IF in_place THEN "in" ELSE "out"
    /\ inDir \in InitialInDirs
    \* the other folder plays no part unless it is the output folder
    /\ out_exists \in IF output_path = "out" THEN BOOLEAN ELSE {FALSE}
    /\ outDir = IF out_exists THEN InitialOutDir ELSE EmptyDir
    /\ pc = "idle"
    /\ output_folder = "in"
    /\ is_inplace = FALSE
    /\ pdf_files = <<>>
    /\ idx = 0
    /\ file_path = None
    /\ title = None
    /\ new_name = None
    /\ rename_count = 0
    /\ skip_count = 0
    /\ error_count = 0
    /\ log = <<>>
    /\ dialogs = <<>>
    /\ start_input = inDir
    /\ name = <<>>
    /\ sanitized = None
    /\ page1_text = <<>>
    /\ extracted = Pending

----------------------------------------------------------------------------
(* PdfRenamerApp.start_renaming_thread *)

\* lines 600-604: the output folder the handler works with
StartOutput == IF in_place THEN input_path ELSE output_path

\* lines 596-622: the message box the handler leaves with, "none" when
\* every test passes
StartVerdict ==
    IF is_processing THEN "busy"
    ELSE IF input_path = "" THEN "no_input"
    ELSE IF StartOutput = "" THEN "no_output"
    ELSE IF input_path = "missing" THEN "missing"
    ELSE IF input_path = "file" THEN "not_dir"
    ELSE "none"

\* the handler without the tests of lines 596-622: every click starts a
\* worker thread
start_renaming_thread_NoGuard ==
    /\ start_dialog' = "none"
    /\ is_processing' = TRUE
    /\ runs' = runs + 1
    /\ output_folder' = StartOutput
    /\ pc' = "begin"
    /\ rename_count' = 0
    /\ skip_count' = 0
    /\ error_count' = 0
    /\ log' = <<>>
    /\ dialogs' = <<>>
    /\ start_input' = inDir
    /\ UNCHANGED <<max_filename_length, input_path, total_files,
                   processed_files, reset_pending, in_place, output_path,
                   fsVars, is_inplace, pdf_files, idx, file_path, title,
                   new_name, sanVars, extVars>>

\* lines 596-641: a click on the run button; the handler leaves with a
\* message box, or sets is_processing and starts the worker thread
start_renaming_thread ==
    IF StartVerdict # "none"
    THEN /\ start_dialog' = StartVerdict
         /\ UNCHANGED <<max_filename_length, input_path, is_processing,
                        total_files, processed_files, reset_pending, runs,
                        in_place, output_path, fsVars, workerVars, sanVars,
                        extVars>>
    ELSE /\ start_dialog' = "none"
         /\ is_processing' = TRUE
         /\ runs' = runs + 1
         /\ output_folder' = StartOutput
         /\ pc' = "begin"
         /\ rename_count' = 0
         /\ skip_count' = 0
         /\ error_count' = 0
         /\ log' = <<>>
         /\ dialogs' = <<>>
         /\ start_input' = inDir
         /\ UNCHANGED <<max_filename_length, input_path, total_files,
                        processed_files, reset_pending, in_place,
                        output_path, fsVars, is_inplace, pdf_files, idx,
                        file_path, title, new_name, sanVars, extVars>>

\* the first click of a behaviour that follows the application through
\* one run
StartRenamingThread ==
    /\ runs = 0
    /\ start_renaming_thread

----------------------------------------------------------------------------
(* PdfRenamerApp.run_renaming_process *)

LogEvent(tag, src, dst) == [tag |-> tag, src |-> src, dst |-> dst]

\* lines 651-657: mode resolution; nothing to create in in-place mode or
\* when the output folder exists (exist_ok=True)
ResolveMode ==
    /\ pc = "begin"
    /\ is_inplace' = (output_folder = "in")
    /\ pc' = IF output_folder = "in" THEN "scan" ELSE "mkdir"
    /\ UNCHANGED <<appVars, fsVars, output_folder, pdf_files, idx, file_path,
                   title, new_name, rename_count, skip_count, error_count,
                   log, dialogs, start_input, sanVars,
                   extVars>>

\* line 659: output_folder.mkdir(parents=True, exist_ok=True) succeeds
MkdirOk ==
    /\ pc = "mkdir"
    /\ out_exists' = TRUE
    /\ pc' = "scan"
    /\ UNCHANGED <<appVars, inDir, outDir, output_folder, is_inplace, pdf_files, idx,
                   file_path, title, new_name, rename_count, skip_count,
                   error_count, log, dialogs, start_input, sanVars,
                   extVars>>

\* the mkdir handlers without their return statements
MkdirFails_NoReturn ==
    \E exc \in {"PermissionError", "Exception"} :
        /\ pc = "mkdir"
        /\ ~out_exists
        /\ dialogs' = Append(dialogs, [kind |-> "showerror", what |-> exc])
        /\ pc' = "scan"
        /\ UNCHANGED <<appVars, fsVars, output_folder, is_inplace, pdf_files,
                       idx, file_path, title, new_name, rename_count,
                       skip_count, error_count, log, start_input, sanVars,
                   extVars>>

\* lines 660-667: mkdir raises (PermissionError or any other exception)
MkdirFails ==
    \E exc \in {"PermissionError", "Exception"} :
        /\ pc = "mkdir"
        /\ ~out_exists
        /\ dialogs' = Append(dialogs, [kind |-> "showerror", what |-> exc])
        /\ pc' = "finally"
        /\ UNCHANGED <<appVars, fsVars, output_folder, is_inplace, pdf_files,
                       idx, file_path, title, new_name, rename_count,
                       skip_count, error_count, log, start_input, sanVars,
                   extVars>>

\* the orders iterdir() may list the set S in
Orders(S) ==
    { o \in [1..Cardinality(S) -> S] :
        \A i, j \in 1..Cardinality(S) : i # j => o[i] # o[j] }

\* the entries the comprehension of lines 674-675 keeps
PdfEntries(dir) == { n \in DOMAIN dir : LowerStr(Suffix(n)) = DotPdf }

\* the scan without the early return of lines 678-681
ScanFolder_NoEarlyReturn ==
    /\ pc = "scan"
    /\ \E order \in Orders(PdfEntries(inDir)) :
        /\ pdf_files' = order
        /\ total_files' = Len(order)
        /\ idx' = 0
        /\ dialogs' = dialogs
        /\ pc' = "loop"
    /\ UNCHANGED <<max_filename_length, input_path, start_dialog, is_processing, processed_files,
                   reset_pending, runs, in_place, output_path, fsVars,
                   output_folder, is_inplace, file_path, title, new_name,
                   rename_count, skip_count, error_count, log, start_input,
                   sanVars, extVars>>

\* lines 674-683: the work list is taken
ScanFolder ==
    /\ pc = "scan"
    /\ \E order \in Orders(PdfEntries(inDir)) :
        /\ pdf_files' = order
        /\ total_files' = Len(order)
        /\ idx' = 0
        /\ IF Len(order) = 0
           THEN /\ dialogs' = Append(dialogs, [kind |-> "showinfo",
                                               what |-> "No PDF files"])
                /\ pc' = "finally"
           ELSE /\ dialogs' = dialogs
                /\ pc' = "loop"
    /\ UNCHANGED <<max_filename_length, input_path, start_dialog, is_processing, processed_files,
                   reset_pending, runs, in_place, output_path, fsVars,
                   output_folder, is_inplace, file_path, title, new_name,
                   rename_count, skip_count, error_count, log, start_input,
                   sanVars, extVars>>

\* lines 674, 763-770: iterdir() raises, the outer handler reports it
ScanRaises ==
    /\ pc = "scan"
    /\ dialogs' = Append(dialogs, [kind |-> "showerror", what |-> "Fatal"])
    /\ pc' = "finally"
    /\ UNCHANGED <<appVars, fsVars, output_folder, is_inplace, pdf_files, idx,
                   file_path, title, new_name, rename_count, skip_count,
                   error_count, log, start_input, sanVars,
                   extVars>>

\* what extract_title_from_pdf returns for each document of the model
TitleOfDoc == [d \in Docs |-> extract_title_from_pdf(d)]

\* the document PdfReader finds at the entry n of the input folder
DocAt(n) == IF n \in DOMAIN inDir THEN inDir[n].doc ELSE DocCorrupt

\* the per-file handler of lines 742-745 without its error_count += 1
ExtractRaises_NoCount ==
    /\ pc = "loop"
    /\ idx < Len(pdf_files)
    /\ TitleOfDoc[DocAt(pdf_files[idx + 1])].raised
    /\ idx' = idx + 1
    /\ processed_files' = idx + 1
    /\ file_path' = pdf_files[idx + 1]
    /\ log' = Append(log, LogEvent("error_processing", pdf_files[idx + 1], None))
    /\ UNCHANGED <<max_filename_length, input_path, start_dialog, is_processing, total_files,
                   reset_pending, runs, in_place, output_path, fsVars, pc,
                   output_folder, is_inplace, pdf_files, title, new_name,
                   rename_count, skip_count, error_count, dialogs,
                   start_input, sanVars,
                   extVars>>

\* lines 686-693, 742-745: next entry, extract_title_from_pdf raises
ExtractRaises ==
    /\ pc = "loop"
    /\ idx < Len(pdf_files)
    /\ TitleOfDoc[DocAt(pdf_files[idx + 1])].raised
    /\ idx' = idx + 1
    /\ processed_files' = idx + 1
    /\ file_path' = pdf_files[idx + 1]
    /\ log' = Append(log, LogEvent("error_processing", pdf_files[idx + 1], None))
    /\ error_count' = error_count + 1
    /\ UNCHANGED <<max_filename_length, input_path, start_dialog, is_processing, total_files,
                   reset_pending, runs, in_place, output_path, fsVars, pc, output_folder, is_inplace,
                   pdf_files, title, new_name, rename_count, skip_count,
                   dialogs, start_input, sanVars,
                   extVars>>

\* lines 686-698: next entry, no title found
ExtractNoTitle ==
    /\ pc = "loop"
    /\ idx < Len(pdf_files)
    /\ LET r == TitleOfDoc[DocAt(pdf_files[idx + 1])]
       IN  /\ ~r.raised
           /\ r.value = None
           /\ title' = r.value
    /\ idx' = idx + 1
    /\ processed_files' = idx + 1
    /\ file_path' = pdf_files[idx + 1]
    /\ log' = Append(log, LogEvent("skip_no_title", pdf_files[idx + 1], None))
    /\ skip_count' = skip_count + 1
    /\ UNCHANGED <<max_filename_length, input_path, start_dialog, is_processing, total_files,
                   reset_pending, runs, in_place, output_path, fsVars, pc, output_folder, is_inplace,
                   pdf_files, new_name, rename_count, error_count,
                   dialogs, start_input, sanVars,
                   extVars>>

\* lines 686-695: next entry, a title was found
ExtractTitle ==
    /\ pc = "loop"
    /\ idx < Len(pdf_files)
    /\ LET r == TitleOfDoc[DocAt(pdf_files[idx + 1])]
       IN  /\ ~r.raised
           /\ r.value # None
           /\ title' = r.value
    /\ idx' = idx + 1
    /\ processed_files' = idx + 1
    /\ file_path' = pdf_files[idx + 1]
    /\ pc' = "resolve"
    /\ UNCHANGED <<max_filename_length, input_path, start_dialog, is_processing, total_files,
                   reset_pending, runs, in_place, output_path, fsVars, output_folder, is_inplace,
                   pdf_files, new_name, rename_count, skip_count, error_count,
                   log, dialogs, start_input, sanVars,
                   extVars>>

\* lines 700-716: derive the name, step over taken names, skip the entry
\* when it already has the name
ResolveNewName ==
    /\ pc = "resolve"
    /\ name' = title
    /\ sanitized' = sanitize_filename(title, max_filename_length)
    /\ new_name' = ResolveName(Target, sanitized')
    /\ IF is_inplace /\ file_path = new_name'
       THEN /\ log' = Append(log, LogEvent("skip_already", file_path, new_name'))
            /\ skip_count' = skip_count + 1
            /\ pc' = "loop"
       ELSE /\ UNCHANGED <<log, skip_count>>
            /\ pc' = "action"
    /\ UNCHANGED <<appVars, fsVars, output_folder, is_inplace, pdf_files, idx,
                   file_path, title, rename_count, error_count, dialogs,
                   start_input, extVars>>

\* a rename whose product is put on the work list
RenameOk_Requeues ==
    /\ pc = "action"
    /\ is_inplace
    /\ file_path \in DOMAIN inDir
    /\ inDir' = Renamed(inDir, file_path, new_name)
    /\ pdf_files' = Append(pdf_files, new_name)
    /\ log' = Append(log, LogEvent("renamed", file_path, new_name))
    /\ rename_count' = rename_count + 1
    /\ pc' = "loop"
    /\ UNCHANGED <<appVars, outDir, out_exists, output_folder, is_inplace, idx,
                   file_path, title, new_name, skip_count, error_count,
                   dialogs, start_input, sanVars,
                   extVars>>

\* lines 719-723: file_path.rename(new_file_path) succeeds
RenameOk ==
    /\ pc = "action"
    /\ is_inplace
    /\ file_path \in DOMAIN inDir
    /\ inDir' = Renamed(inDir, file_path, new_name)
    /\ log' = Append(log, LogEvent("renamed", file_path, new_name))
    /\ rename_count' = rename_count + 1
    /\ pc' = "loop"
    /\ UNCHANGED <<appVars, outDir, out_exists, output_folder, is_inplace, pdf_files, idx,
                   file_path, title, new_name, skip_count, error_count,
                   dialogs, start_input, sanVars,
                   extVars>>

\* rename raising with no handler around it but the outer one (763-770)
RenameFails_Propagates ==
    /\ pc = "action"
    /\ is_inplace
    /\ dialogs' = Append(dialogs, [kind |-> "showerror", what |-> "Fatal"])
    /\ pc' = "finally"
    /\ UNCHANGED <<appVars, fsVars, output_folder, is_inplace, pdf_files, idx,
                   file_path, title, new_name, rename_count, skip_count,
                   error_count, log, start_input, sanVars,
                   extVars>>

\* lines 724-729: rename raises
RenameFails ==
    /\ pc = "action"
    /\ is_inplace
    /\ log' = Append(log, LogEvent("error_rename", file_path, new_name))
    /\ error_count' = error_count + 1
    /\ pc' = "loop"
    /\ UNCHANGED <<appVars, fsVars, output_folder, is_inplace, pdf_files, idx,
                   file_path, title, new_name, rename_count, skip_count,
                   dialogs, start_input, sanVars,
                   extVars>>

\* a move in place of the copy: the source leaves the input folder
CopyOk_Moves ==
    /\ pc = "action"
    /\ ~is_inplace
    /\ file_path \in DOMAIN inDir
    /\ outDir' = WithFile(outDir, new_name, inDir[file_path])
    /\ inDir' = [m \in DOMAIN inDir \ {file_path} |-> inDir[m]]
    /\ log' = Append(log, LogEvent("copied", file_path, new_name))
    /\ rename_count' = rename_count + 1
    /\ pc' = "loop"
    /\ UNCHANGED <<appVars, out_exists, output_folder, is_inplace, pdf_files,
                   idx, file_path, title, new_name, skip_count, error_count,
                   dialogs, start_input, sanVars,
                   extVars>>

\* lines 731-734: shutil.copy2(file_path, new_file_path) succeeds
CopyOk ==
    /\ pc = "action"
    /\ ~is_inplace
    /\ file_path \in DOMAIN inDir
    /\ outDir' = WithFile(outDir, new_name, inDir[file_path])
    /\ log' = Append(log, LogEvent("copied", file_path, new_name))
    /\ rename_count' = rename_count + 1
    /\ pc' = "loop"
    /\ UNCHANGED <<appVars, inDir, out_exists, output_folder, is_inplace,
                   pdf_files, idx,
                   file_path, title, new_name, skip_count, error_count,
                   dialogs, start_input, sanVars,
                   extVars>>

\* what copy2 leaves at the destination when it fails after creating it
PartialFile == File(<<"p","a","r","t">>, DocCorrupt)

\* lines 735-740: copy2 raises, before or after it created the destination
CopyFails ==
    \E created \in BOOLEAN :
        /\ pc = "action"
        /\ ~is_inplace
        /\ outDir' = IF created THEN WithFile(outDir, new_name, PartialFile)
                     ELSE outDir
        /\ log' = Append(log, LogEvent("error_copy", file_path, new_name))
        /\ error_count' = error_count + 1
        /\ pc' = "loop"
        /\ UNCHANGED <<appVars, inDir, out_exists, output_folder, is_inplace,
                       pdf_files,
                       idx, file_path, title, new_name, rename_count,
                       skip_count, dialogs, start_input, sanVars,
                   extVars>>

\* a summary that reports the error count as the skipped count
Summary_Swapped ==
    /\ pc = "loop"
    /\ idx = Len(pdf_files)
    /\ dialogs' = Append(dialogs, [kind |-> "showinfo", what |-> "Success",
                                   processed |-> rename_count,
                                   skipped |-> error_count,
                                   errors |-> skip_count])
    /\ pc' = "finally"
    /\ UNCHANGED <<appVars, fsVars, output_folder, is_inplace, pdf_files, idx,
                   file_path, title, new_name, rename_count, skip_count,
                   error_count, log, start_input, sanVars,
                   extVars>>

\* lines 747-761: the summary, after the last entry
Summary ==
    /\ pc = "loop"
    /\ idx = Len(pdf_files)
    /\ dialogs' = Append(dialogs, [kind |-> "showinfo", what |-> "Success",
                                   processed |-> rename_count,
                                   skipped |-> skip_count,
                                   errors |-> error_count])
    /\ pc' = "finally"
    /\ UNCHANGED <<appVars, fsVars, output_folder, is_inplace, pdf_files, idx,
                   file_path, title, new_name, rename_count, skip_count,
                   error_count, log, start_input, sanVars,
                   extVars>>

\* a worker that ends without scheduling _reset_ui
Finally_NoReset ==
    /\ pc = "finally"
    /\ pc' = "idle"
    /\ UNCHANGED <<appVars, fsVars, output_folder, is_inplace, pdf_files, idx,
                   file_path, title, new_name, rename_count, skip_count,
                   error_count, log, dialogs, start_input, sanVars, extVars>>

\* lines 772-783: the finally clause schedules _reset_ui; the thread ends
Finally ==
    /\ pc = "finally"
    /\ reset_pending' = TRUE
    /\ pc' = "idle"
    /\ UNCHANGED <<max_filename_length, input_path, start_dialog, is_processing, total_files,
                   processed_files, runs, in_place, output_path, fsVars,
                   output_folder, is_inplace,
                   pdf_files, idx, file_path, title, new_name, rename_count,
                   skip_count, error_count, log, dialogs, start_input,
                   sanVars, extVars>>

\* lines 774-781: _reset_ui runs on the UI thread
ResetUi ==
    /\ reset_pending
    /\ reset_pending' = FALSE
    /\ is_processing' = FALSE
    /\ UNCHANGED <<max_filename_length, input_path, start_dialog, total_files, processed_files, runs,
                   in_place, output_path, fsVars, workerVars, sanVars,
                   extVars>>

Next ==
    \/ StartRenamingThread
    \/ ResolveMode
    \/ MkdirOk
    \/ MkdirFails
    \/ ScanFolder
    \/ ScanRaises
    \/ ExtractRaises
    \/ ExtractNoTitle
    \/ ExtractTitle
    \/ ResolveNewName
    \/ RenameOk
    \/ RenameFails
    \/ CopyOk
    \/ CopyFails
    \/ Summary
    \/ Finally
    \/ ResetUi

Spec == Init /\ [][Next]_vars

----------------------------------------------------------------------------
(* UiSpec: the run button is clicked at any time, with any folder fields *)

\* accepted clicks a behaviour of UiSpec goes through
MaxStarts == 2

\* input folders of UiSpec: no PDF file, or x.pdf with any document
UiInDirs == {d \in InitialInDirs : PdfEntries(d) \subseteq {<<"x">> \o DotPdf}}

UiInit ==
    /\ max_filename_length = DefaultMaxLength
    /\ is_processing = FALSE
    /\ total_files = 0
    /\ processed_files = 0
    /\ reset_pending = FALSE
    /\ runs = 0
    /\ input_path \in {"", "missing", "file", "in"}
    /\ start_dialog = "none"
    /\ in_place \in BOOLEAN
    \* line 537: ticking the check box copies the input path
    /\ output_path \in IF in_place THEN {input_path} ELSE {"", "out"}
    /\ inDir \in IF input_path = "in" THEN UiInDirs ELSE {EmptyDir}
    /\ out_exists \in IF input_path = "in" /\ output_path = "out"
                      THEN BOOLEAN ELSE {FALSE}
    /\ outDir = IF out_exists THEN InitialOutDir ELSE EmptyDir
    /\ pc = "idle"
    /\ output_folder = "in"
    /\ is_inplace = FALSE
    /\ pdf_files = <<>>
    /\ idx = 0
    /\ file_path = None
    /\ title = None
    /\ new_name = None
    /\ rename_count = 0
    /\ skip_count = 0
    /\ error_count = 0
    /\ log = <<>>
    /\ dialogs = <<>>
    /\ start_input = inDir
    /\ name = <<>>
    /\ sanitized = None
    /\ page1_text = <<>>
    /\ extracted = Pending

\* a click on the run button, at any time; accepted clicks are counted up
\* to MaxStarts
UiStart ==
    /\ runs < MaxStarts \/ StartVerdict # "none"
    /\ start_renaming_thread

\* the steps of the worker thread
Worker ==
    \/ ResolveMode
    \/ MkdirOk
    \/ MkdirFails
    \/ ScanFolder
    \/ ScanRaises
    \/ ExtractRaises
    \/ ExtractNoTitle
    \/ ExtractTitle
    \/ ResolveNewName
    \/ RenameOk
    \/ RenameFails
    \/ CopyOk
    \/ CopyFails
    \/ Summary
    \/ Finally

UiNext ==
    \/ UiStart
    \/ Worker
    \/ ResetUi

UiSpec == UiInit /\ [][UiNext]_vars

\* UiSpec with its scheduling: a worker thread that can take a step
\* eventually takes one (the operating system runs it, and a message box it
\* shows is dismissed), and the Tk main loop eventually runs a callback
\* scheduled with root.after; nothing obliges the user to click
UiFairSpec == UiSpec /\ WF_vars(Worker) /\ WF_vars(ResetUi)

----------------------------------------------------------------------------
(* SanSpec: one call of sanitize_filename on an arbitrary bounded input *)

\* characters of the raw names SanSpec enumerates: a letter, the two
\* characters strip(" .") removes, an illegal character and a tab
SanChars == {"a", " ", ".", ":", "\t"}

\* configured values of settings.max_filename_length SanSpec enumerates
SanMaxLengths == {1, 2, 16, DefaultMaxLength}

StringsUpTo(chars, n) == UNION {[1..k -> chars] : k \in 0..n}

\* 'Report: Q1/2024*'
ReportTitle ==
    <<"R","e","p","o","r","t",":"," ","Q","1","/","2","0","2","4","*">>

\* a name holding each of the nine illegal characters: a\b/c:d*e?f"g<h>i|j
NineIllegal ==
    <<"a","\\","b","/","c",":","d","*","e","?","f","\"","g","<","h",">",
      "i","|","j">>

\* raw names SanSpec tries besides the enumerated ones
SanExamples == {ReportTitle, NineIllegal}

SanInit ==
    /\ max_filename_length \in SanMaxLengths
    /\ name \in StringsUpTo(SanChars, MaxNameLen) \cup SanExamples
    /\ sanitized = None
    /\ is_processing = FALSE
    /\ total_files = 0
    /\ processed_files = 0
    /\ reset_pending = FALSE
    /\ runs = 0
    /\ in_place = FALSE
    /\ output_path = "in"
    /\ input_path = "in"
    /\ start_dialog = "none"
    /\ page1_text = <<>>
    /\ extracted = Pending
    /\ inDir = EmptyDir
    /\ outDir = EmptyDir
    /\ out_exists = FALSE
    /\ pc = "idle"
    /\ output_folder = "in"
    /\ is_inplace = FALSE
    /\ pdf_files = <<>>
    /\ idx = 0
    /\ file_path = None
    /\ title = None
    /\ new_name = None
    /\ rename_count = 0
    /\ skip_count = 0
    /\ error_count = 0
    /\ log = <<>>
    /\ dialogs = <<>>
    /\ start_input = EmptyDir

SanitizeCall ==
    /\ sanitized = None
    /\ sanitized' = sanitize_filename(name, max_filename_length)
    /\ UNCHANGED <<appVars, fsVars, workerVars, name, extVars>>

SanNext == SanitizeCall

SanSpec == SanInit /\ [][SanNext]_vars

----------------------------------------------------------------------------
(* ExtSpec: one call of extract_title_from_pdf on a readable one-page      *)
(* document with an arbitrary bounded text                                 *)

\* the lines the page texts are made of: empty, blank, labels in several
\* cases and with surrounding whitespace, a near-label, two ordinary lines
ExtLines ==
    { <<>>,
      <<" ">>,
      <<"T","i","t","l","e">>,
      <<"T","I","T","L","E"," ">>,
      <<"\t","t","i","t","l","e">>,
      <<"T","i","t","l","e","s">>,
      <<"A">>,
      <<" ","B"," ">> }

\* '\n'.join(ls)
RECURSIVE JoinLines(_)
JoinLines(ls) ==
    IF ls = <<>> THEN <<>>
    ELSE IF Len(ls) = 1 THEN ls[1]
    ELSE ls[1] \o <<"\n">> \o JoinLines(Tail(ls))

\* "My Document"
MyDocument == <<"M","y"," ","D","o","c","u","m","e","n","t">>

\* "Title\n\nMy Document\n"
TitleMyDocument ==
    <<"T","i","t","l","e","\n","\n">> \o MyDocument \o <<"\n">>

ExtTexts ==
    { JoinLines(ls) : ls \in UNION {[1..k -> ExtLines] : k \in 0..MaxLines} }
        \cup {TitleMyDocument}

ExtInit ==
    /\ page1_text \in ExtTexts
    /\ extracted = Pending
    /\ max_filename_length = DefaultMaxLength
    /\ name = <<>>
    /\ sanitized = None
    /\ is_processing = FALSE
    /\ total_files = 0
    /\ processed_files = 0
    /\ reset_pending = FALSE
    /\ runs = 0
    /\ in_place = FALSE
    /\ output_path = "in"
    /\ input_path = "in"
    /\ start_dialog = "none"
    /\ inDir = EmptyDir
    /\ outDir = EmptyDir
    /\ out_exists = FALSE
    /\ pc = "idle"
    /\ output_folder = "in"
    /\ is_inplace = FALSE
    /\ pdf_files = <<>>
    /\ idx = 0
    /\ file_path = None
    /\ title = None
    /\ new_name = None
    /\ rename_count = 0
    /\ skip_count = 0
    /\ error_count = 0
    /\ log = <<>>
    /\ dialogs = <<>>
    /\ start_input = EmptyDir

ExtractCall ==
    /\ extracted = Pending
    /\ extracted' = extract_title_from_pdf(
                        [parse |-> "ok", pages |-> 1, text |-> page1_text]).value
    /\ UNCHANGED <<appVars, fsVars, workerVars, sanVars, page1_text>>

ExtNext == ExtractCall

ExtSpec == ExtInit /\ [][ExtNext]_vars

----------------------------------------------------------------------------
(* Vocabulary of the properties *)

\* work-list entries whose iteration of the loop is over
Finished == IF pc \in {"resolve", "action"} THEN idx - 1 ELSE idx

\* the worker thread has ended
RunOver == runs = 1 /\ pc \in {"finally", "idle"}

\* the summary dialogs shown
Summaries == {i \in 1..Len(dialogs) : dialogs[i].what = "Success"}

\* the file and the document work-list entry k had when the run started
FileOf(k) == start_input[pdf_files[k]]
DocOf(k) == FileOf(k).doc

\* the finished entries whose logged outcome is one of tags
Tagged(tags) == {k \in 1..Len(log) : log[k].tag \in tags}

WrittenTags == {"renamed", "copied"}
ActionErrorTags == {"error_rename", "error_copy"}
ErrorTags == ActionErrorTags \cup {"error_processing"}

\* a readable document in which no title is found
NoTitleDoc(d) == d.parse = "ok" /\ (d.pages = 0 \/ TitleOfText(d.text) = None)

\* the output folder holds the bytes of entry k under the name logged for it
WrittenOk(k) ==
    /\ log[k].dst # None
    /\ log[k].dst \in DOMAIN Target
    /\ Target[log[k].dst] = FileOf(k)
    /\ output_folder = "in" => log[k].dst # pdf_files[k]

----------------------------------------------------------------------------
(* C1 *)

\* C1: every file of the work list produces exactly one outcome: while the
\* loop runs the three counters sum to the number of files finished (and
\* the log holds one outcome per finished file, in list order), and the
\* counts of the summary sum to the number of PDF files enumerated.
C1_OneOutcomePerFile ==
    /\ pc \in {"loop", "resolve", "action"} =>
        /\ rename_count + skip_count + error_count = Finished
        /\ Len(log) = Finished
        /\ \A k \in 1..Len(log) : log[k].src = pdf_files[k]
    /\ \A i \in Summaries :
        /\ dialogs[i].processed + dialogs[i].skipped + dialogs[i].errors
             = Len(pdf_files)
        /\ Len(pdf_files) = Cardinality(PdfEntries(start_input))
        /\ Len(log) = Len(pdf_files)

\* a summary after a run with a missing title, a parse failure and a failed
\* rename or copy
C1_Witness ==
    /\ Summaries # {}
    /\ Tagged({"skip_no_title"}) # {}
    /\ Tagged({"error_processing"}) # {}
    /\ Tagged(ActionErrorTags) # {}

----------------------------------------------------------------------------
(* C2 *)

\* the entry n of the input folder already bears the name derived from its
\* title
AlreadyNamed(n) ==
    LET r == extract_title_from_pdf(start_input[n].doc)
    IN  /\ ~r.raised
        /\ r.value # None
        /\ n = sanitize_filename(r.value, max_filename_length) \o DotPdf

\* C2: in in-place mode a file that already bears its derived name is
\* skipped as already correctly named (no rename is issued for it, its
\* outcome is the skip) and is still in the folder, unchanged, under that
\* name.
C2_AlreadyNamedIsSkipped ==
    (runs = 1 /\ output_folder = "in") =>
        /\ pc = "action" => ~AlreadyNamed(file_path)
        /\ \A k \in 1..Len(log) :
              AlreadyNamed(pdf_files[k]) =>
                  /\ log[k].tag = "skip_already"
                  /\ pdf_files[k] \in DOMAIN inDir
                  /\ inDir[pdf_files[k]] = FileOf(k)

----------------------------------------------------------------------------
(* C3 *)

\* C3: the names under which the files of one run were written are pairwise
\* distinct, and each written file is in the output folder under its name.
C3_WrittenNamesDistinct ==
    /\ \A j, k \in Tagged(WrittenTags) : j # k => log[j].dst # log[k].dst
    /\ \A k \in Tagged(WrittenTags) : WrittenOk(k)

\* two files with the same title were both written
C3_Witness ==
    \E j, k \in Tagged(WrittenTags) :
        /\ j # k
        /\ DocOf(j) = DocAlpha
        /\ DocOf(k) = DocAlpha

----------------------------------------------------------------------------
(* C4 *)

\* C4: a failure on one file never aborts the run: once the worker has
\* ended after taking a non-empty work list, every entry was attempted, the
\* summary was shown, every unparsable document was logged as an error and
\* the error counter equals the number of errors logged.
C4_FailureNeverAborts ==
    /\ error_count = Cardinality(Tagged(ErrorTags))
    /\ (RunOver /\ pdf_files # <<>>) =>
        /\ idx = Len(pdf_files)
        /\ Len(log) = Len(pdf_files)
        /\ Summaries # {}
        /\ \A k \in 1..Len(pdf_files) :
              DocOf(k).parse = "error" => log[k].tag = "error_processing"

\* the run ended with its summary, a rename failed and a later file was
\* renamed
C4_Witness ==
    /\ RunOver
    /\ Summaries # {}
    /\ \E j, k \in 1..Len(log) :
        /\ j < k
        /\ log[j].tag = "error_rename"
        /\ log[k].tag = "renamed"

----------------------------------------------------------------------------
(* C5 *)

\* C5: the step that takes an unparsable document increments error_count
\* only; the step that takes a readable document without title increments
\* skip_count only.
C5_ParseFailureIsError ==
    [][ (pc = "loop" /\ idx < Len(pdf_files) /\ idx' = idx + 1) =>
          LET d == DocAt(pdf_files[idx + 1])
          IN  /\ d.parse = "error" =>
                    /\ error_count' = error_count + 1
                    /\ skip_count' = skip_count
                    /\ rename_count' = rename_count
              /\ NoTitleDoc(d) =>
                    /\ skip_count' = skip_count + 1
                    /\ error_count' = error_count
                    /\ rename_count' = rename_count ]_vars

\* an unparsable document and a document without title were both handled
C5_Witness ==
    /\ \E k \in Tagged({"error_processing"}) : DocOf(k).parse = "error"
    /\ \E k \in Tagged({"skip_no_title"}) : NoTitleDoc(DocOf(k))
    /\ error_count = 1
    /\ skip_count = 1
    /\ rename_count = 0

----------------------------------------------------------------------------
(* C6 *)

\* the folder of the end-to-end example: one titled PDF, one PDF without
\* Title label, one corrupt PDF, and no failure of the rename or copy
ExampleRun ==
    /\ Len(pdf_files) = 3
    /\ {DocOf(k) : k \in 1..3} = {DocAlpha, DocNoLabel, DocCorrupt}
    /\ Tagged(ActionErrorTags) = {}

----------------------------------------------------------------------------
(* C7 *)

\* C7: in copy mode the input folder holds, at every point of the run,
\* exactly the files it held when the run started, with the same content.
C7_CopyKeepsSources ==
    (runs = 1 /\ output_folder = "out") => inDir = start_input

\* a copy-mode run ended after a copy, a skip and an error
C7_Witness ==
    /\ RunOver
    /\ output_folder = "out"
    /\ Tagged({"copied"}) # {}
    /\ Tagged({"skip_no_title"}) # {}
    /\ Tagged(ErrorTags) # {}

----------------------------------------------------------------------------
(* C8 *)

\* the failure of mkdir was reported
MkdirFailed ==
    \E i \in 1..Len(dialogs) :
        /\ dialogs[i].kind = "showerror"
        /\ dialogs[i].what \in {"PermissionError", "Exception"}

\* C8: when the output folder cannot be created the run ends before any
\* file is enumerated or processed: the work list is empty, no counter
\* moved, nothing was logged per file, both folders are as they were and
\* the failure is the only dialog shown.
C8_MkdirFailureAborts ==
    MkdirFailed =>
        /\ output_folder = "out"
        /\ pc \in {"finally", "idle"}
        /\ pdf_files = <<>>
        /\ idx = 0
        /\ total_files = 0
        /\ processed_files = 0
        /\ rename_count = 0
        /\ skip_count = 0
        /\ error_count = 0
        /\ log = <<>>
        /\ Len(dialogs) = 1
        /\ inDir = start_input
        /\ outDir = EmptyDir
        /\ ~out_exists

\* mkdir failed for a run whose input folder holds PDF files, and the
\* worker has ended
C8_Witness ==
    /\ MkdirFailed
    /\ pc = "idle"
    /\ PdfEntries(inDir) # {}

----------------------------------------------------------------------------
(* C9 *)

\* C9: the name returned for an input longer than max_filename_length is at
\* most max_filename_length characters long.
C9_LengthBounded ==
    (sanitized # None /\ Len(name) > max_filename_length) =>
        Len(sanitized) <= max_filename_length

----------------------------------------------------------------------------
(* C10 *)

\* every character of n is removed by the regular expression or by
\* strip(" .")
OnlyRemovable(n) ==
    \A i \in 1..Len(n) : n[i] \in IllegalChars \cup {" ", "."}

\* C10: sanitize_filename never returns the empty string, and returns
\* "Untitled Manual" for an input that is empty or made only of illegal
\* characters, spaces and periods.
C10_NeverEmpty ==
    sanitized # None =>
        /\ sanitized # <<>>
        /\ OnlyRemovable(name) => sanitized = UntitledManual

\* the fallback was returned for an input emptied by the truncation
C10_Witness ==
    /\ sanitized = UntitledManual
    /\ name # <<>>
    /\ ~OnlyRemovable(name)

----------------------------------------------------------------------------
(* C11 *)

\* the characters of n that are not illegal, in their order
Kept(n) == SelectSeq(n, LAMBDA c : c \notin IllegalChars)

\* a occurs in b as a run of consecutive characters
IsInfix(a, b) ==
    \E i \in 0..(Len(b) - Len(a)) : SubSeq(b, i + 1, i + Len(a)) = a

\* "Report Q12024"
ReportSanitized == <<"R","e","p","o","r","t"," ","Q","1","2","0","2","4">>

\* C11: the result holds none of the nine illegal characters; unless it is
\* the fallback literal it is a run of consecutive characters of the input
\* with its illegal characters deleted (nothing inserted, order kept); and
\* 'Report: Q1/2024*' gives "Report Q12024" when the limit allows 13
\* characters.
C11_IllegalCharsDeleted ==
    sanitized # None =>
        /\ \A i \in 1..Len(sanitized) : sanitized[i] \notin IllegalChars
        /\ sanitized = UntitledManual \/ IsInfix(sanitized, Kept(name))
        /\ (name = ReportTitle /\ max_filename_length >= 13) =>
              sanitized = ReportSanitized

\* the name with the nine illegal characters came back as its ten letters
C11_Witness ==
    /\ name = NineIllegal
    /\ sanitized = <<"a","b","c","d","e","f","g","h","i","j">>

----------------------------------------------------------------------------
(* C12 *)

\* the trimmed lines of the page text
TrimmedLines(text) ==
    LET raw == SplitLines(text)
    IN  [i \in 1..Len(raw) |-> Strip(raw[i], Whitespace)]

\* the least element of a non-empty set of numbers
Least(S) == CHOOSE i \in S : \A j \in S : i <= j

\* the indices of the label lines of ls
Labels(ls) == {i \in 1..Len(ls) : LowerStr(ls[i]) = <<"t","i","t","l","e">>}

\* the indices of the non-empty lines of ls after line i
Followers(ls, i) == {j \in (i + 1)..Len(ls) : ls[j] # <<>>}

\* C12: the title extracted is the first non-empty trimmed line after the
\* first line that is "title" when trimmed and case-folded; it is absent
\* when there is no such line or no non-empty line after the first one;
\* it is never the empty string.
C12_TitleAfterFirstLabel ==
    extracted # Pending =>
        LET ls == TrimmedLines(page1_text)
        IN  /\ extracted # <<>>
            /\ IF Labels(ls) = {} \/ Followers(ls, Least(Labels(ls))) = {}
               THEN extracted = None
               ELSE extracted = ls[Least(Followers(ls, Least(Labels(ls))))]
            /\ page1_text = TitleMyDocument => extracted = MyDocument

\* a title was found past a blank line although a later label line has no
\* line after it
C12_Witness ==
    LET ls == TrimmedLines(page1_text)
    IN  /\ extracted = <<"A">>
        /\ Cardinality(Labels(ls)) = 2
        /\ ls[Least(Labels(ls)) + 1] = <<>>
        /\ Len(ls) \in Labels(ls)

----------------------------------------------------------------------------
(* C13 *)

\* "<base> (N).pdf"
Numbered(base, N) == base \o <<" ", "(">> \o DecStr(N) \o <<")">> \o DotPdf

\* two files with the title Alpha were both written into a folder that
\* held neither Alpha.pdf nor Alpha (1).pdf when the run started
TwoAlphaRun ==
    /\ Len(pdf_files) = 2
    /\ Len(log) = 2
    /\ DocOf(1) = DocAlpha
    /\ DocOf(2) = DocAlpha
    /\ log[1].tag \in WrittenTags
    /\ log[2].tag \in WrittenTags
    /\ IF output_folder = "in"
       THEN {Alpha \o DotPdf, Numbered(Alpha, 1)} \cap DOMAIN start_input = {}
       ELSE DOMAIN outDir \subseteq {log[1].dst, log[2].dst}

\* C13: when a rename or copy is about to be issued, the resolved name is
\* "<base>.pdf" if that name is free in the output folder, otherwise
\* "<base> (N).pdf" for the least N >= 1 whose name is free; two files
\* with the same title written into a folder free of their names get
\* "<base>.pdf" and "<base> (1).pdf" in the order of the work list.
C13_FirstFreeSlot ==
    /\ pc = "action" =>
        /\ new_name \notin DOMAIN Target
        /\ IF sanitized \o DotPdf \notin DOMAIN Target
           THEN new_name = sanitized \o DotPdf
           ELSE \E N \in 1..(Cardinality(DOMAIN Target) + 1) :
                   /\ new_name = Numbered(sanitized, N)
                   /\ \A M \in 1..(N - 1) :
                         Numbered(sanitized, M) \in DOMAIN Target
    /\ TwoAlphaRun =>
        /\ log[1].dst = Alpha \o DotPdf
        /\ log[2].dst = Numbered(Alpha, 1)

\* the second of two files titled Alpha was copied to "Alpha (1).pdf"
C13_Witness ==
    /\ TwoAlphaRun
    /\ output_folder = "out"
    /\ log[2].dst = Numbered(Alpha, 1)
    /\ log[2].src = pdf_files[2]

----------------------------------------------------------------------------
(* C14 *)

\* the entries of the run for which a name was resolved
Assigned == {k \in 1..Len(log) : log[k].dst # None}

\* C14: the name resolved for a file is never a name that was resolved for
\* an earlier file of the same run, also when the earlier rename or copy
\* failed and left no file at that name.
C14_NeverReassigned ==
    /\ \A j, k \in Assigned : j < k => log[j].dst # log[k].dst
    /\ pc = "action" => \A j \in Assigned : log[j].dst # new_name

----------------------------------------------------------------------------
(* C15 *)

\* the worker is past the scan and inside the loop over the work list
InLoop == pc \in {"loop", "resolve", "action"}

\* C15: the work list is taken once, at the scan, and is exactly the PDF
\* entries the input folder held then, each once; it never changes
\* afterwards; the loop steps through it one entry at a time in list order,
\* so the k-th outcome of the run belongs to the k-th entry of the list,
\* and an entry that came into the input folder after the scan (the product
\* of an in-place rename of this run) is never processed.
C15_SnapshotInOrder ==
    [][ /\ pdf_files' # pdf_files => pc = "scan"
        /\ idx' # idx =>
              \/ pc = "scan" /\ idx' = 0
              \/ /\ pc = "loop"
                 /\ idx' = idx + 1
                 /\ file_path' = pdf_files[idx + 1]
        /\ InLoop' =>
              /\ \A i, j \in 1..Len(pdf_files') :
                    i # j => pdf_files'[i] # pdf_files'[j]
              /\ {pdf_files'[i] : i \in 1..Len(pdf_files')}
                    = PdfEntries(start_input')
              /\ idx' \in 0..Len(pdf_files')
              /\ Len(log') \in {idx', idx' - 1}
              /\ \A k \in 1..Len(log') :
                    /\ log'[k].src = pdf_files'[k]
                    /\ log'[k].src \in DOMAIN start_input'
        /\ Len(log') > Len(log) =>
              /\ Len(log') = Len(log) + 1
              /\ log'[Len(log')].src = file_path'
              /\ \A k \in 1..Len(log) : log'[k] = log[k]
      ]_vars

\* an in-place run is over: it went through a list of two entries or more
\* and left in the input folder a PDF entry that was not there at the scan
C15_Witness ==
    /\ RunOver
    /\ is_inplace
    /\ Len(pdf_files) >= 2
    /\ Len(log) = Len(pdf_files)
    /\ PdfEntries(inDir) \ DOMAIN start_input # {}

----------------------------------------------------------------------------
(* C16 *)

\* the dialogs of the run-fatal exits (lines 660-667, 763-770)
FatalDialogs == {i \in 1..Len(dialogs) : dialogs[i].kind = "showerror"}

\* the "No PDF files found" dialogs (lines 678-681)
NoPdfDialogs == {i \in 1..Len(dialogs) : dialogs[i].what = "No PDF files"}

\* the run of the behaviour has ended and the worker thread is gone
RunEnded == runs = 1 /\ pc = "idle"

\* every run that is not run-fatal, a run over zero PDF files included,
\* has emitted exactly one summary when it ends
C16_AlwaysOneSummary ==
    (RunEnded /\ FatalDialogs = {}) => Cardinality(Summaries) = 1

\* the states of the run: "Summarizing" once the summary is out, "Ending"
\* on the way out of a run that emits none
Phase ==
    CASE pc = "idle" -> "Idle"
      [] pc \in {"begin", "mkdir", "scan"} -> "Scanning"
      [] pc \in {"loop", "resolve", "action"} -> "Processing"
      [] pc = "finally" -> IF Summaries # {} THEN "Summarizing" ELSE "Ending"

\* C16 (amended): a run that is not run-fatal and whose work list is not
\* empty goes Idle -> Scanning -> Processing -> Summarizing -> Idle and
\* emits exactly one summary (processed, skipped, errors), after every
\* entry of the list was attempted; a run that finds zero PDF files goes
\* Idle -> Scanning -> Idle, shows "No PDF files found" and emits no
\* summary.
C16_SummaryUnlessEmpty ==
    [][ /\ Phase' # Phase =>
              <<Phase, Phase'>> \in
                  { <<"Idle", "Scanning">>, <<"Scanning", "Processing">>,
                    <<"Processing", "Summarizing">>,
                    <<"Summarizing", "Idle">>,
                    <<"Scanning", "Ending">>, <<"Ending", "Idle">> }
        /\ (Phase = "Scanning" /\ Phase' = "Processing") =>
              /\ pdf_files' # <<>>
              /\ dialogs' = <<>>
        /\ (Phase = "Scanning" /\ Phase' = "Ending") =>
              /\ Len(dialogs') = 1
              /\ \/ FatalDialogs' = {1}
                 \/ NoPdfDialogs' = {1} /\ PdfEntries(inDir) = {}
        /\ (Phase = "Processing" /\ Phase' = "Summarizing") =>
              /\ idx = Len(pdf_files)
              /\ Len(log) = Len(pdf_files)
              /\ pdf_files # <<>>
              /\ dialogs' = <<[kind |-> "showinfo", what |-> "Success",
                               processed |-> rename_count,
                               skipped |-> skip_count,
                               errors |-> error_count]>>
        /\ Summaries' # Summaries =>
              Phase = "Processing" /\ Phase' = "Summarizing"
        /\ (RunEnded' /\ FatalDialogs' = {}) =>
              IF pdf_files' = <<>>
              THEN Summaries' = {} /\ NoPdfDialogs' = {1}
              ELSE Cardinality(Summaries') = 1 /\ NoPdfDialogs' = {}
      ]_vars

\* a run over a folder without PDF files has ended with the "No PDF files
\* found" dialog and without a summary
C16_Witness ==
    /\ RunEnded
    /\ PdfEntries(start_input) = {}
    /\ NoPdfDialogs = {1}
    /\ Summaries = {}
    /\ reset_pending

----------------------------------------------------------------------------
(* C17 *)

\* C17: when a rename or copy is about to be issued the resolved name does
\* not exist in the output folder, and no step of a run takes away or
\* changes a file of the output folder: every file that was there before
\* the step is there after it under the same name with the same content,
\* except the source of an in-place rename, which is there with its
\* content under the resolved name, a name that was free before.
C17_NeverOverwrites ==
    [][ /\ pc' = "action" => new_name' \notin DOMAIN Target'
        /\ pc # "idle" =>
              \A n \in DOMAIN Target :
                  \/ /\ n \in DOMAIN Target'
                     /\ Target'[n] = Target[n]
                  \/ /\ pc = "action"
                     /\ is_inplace
                     /\ n = file_path
                     /\ new_name \notin DOMAIN Target
                     /\ new_name \in DOMAIN Target'
                     /\ Target'[new_name] = Target[n]
      ]_vars

\* a copy run has written two files next to the Alpha.pdf its output
\* folder held before, and that file still has its old content
C17_Witness ==
    /\ pc = "loop"
    /\ ~is_inplace
    /\ Cardinality(Tagged({"copied"})) = 2
    /\ Alpha \o DotPdf \in DOMAIN outDir
    /\ outDir[Alpha \o DotPdf] = InitialOutDir[Alpha \o DotPdf]
    /\ Numbered(Alpha, 1) \in DOMAIN outDir
    /\ Numbered(Alpha, 2) \in DOMAIN outDir

----------------------------------------------------------------------------
(* C18 *)

\* a worker thread is between its start and the end of its finally clause
WorkerActive == pc # "idle"

\* the folder fields pass the validation of lines 607-622
ValidPaths == input_path = "in" /\ StartOutput # ""

\* everything but the message box of the start handler is left as it was
OnlyDialogChanges ==
    UNCHANGED <<max_filename_length, is_processing, total_files,
                processed_files, reset_pending, runs, in_place, output_path,
                input_path, fsVars, workerVars, sanVars, extVars>>

\* C18: at most one worker is active at any time. A worker is started only
\* by a click that finds is_processing false, no worker active, no reset
\* pending and valid folder fields; is_processing is set by such a click
\* only and stays set while the worker is active. A click while
\* is_processing is true shows the "already in progress" warning and
\* changes nothing else, wherever the worker and the scheduled reset are.
\* A click with an empty, missing or non-directory input path, or an empty
\* output path, shows its error and changes nothing else: with such fields
\* is_processing is never set and no worker is ever started.
C18_OneWorker ==
    [][ /\ runs' # runs =>
              /\ runs' = runs + 1
              /\ ~is_processing
              /\ ~WorkerActive
              /\ ~reset_pending
              /\ ValidPaths
              /\ is_processing'
              /\ pc' = "begin"
        /\ (~is_processing /\ is_processing') => runs' = runs + 1
        /\ (~WorkerActive /\ WorkerActive') => runs' = runs + 1
        /\ WorkerActive' => is_processing'
        /\ reset_pending' => is_processing' /\ ~WorkerActive'
        /\ start_dialog' # start_dialog =>
              /\ start_dialog' = StartVerdict
              /\ start_dialog' # "none" => OnlyDialogChanges
        /\ (is_processing /\ start_dialog' # start_dialog) =>
              start_dialog' = "busy" /\ OnlyDialogChanges
        /\ ~ValidPaths' => ~is_processing' /\ ~WorkerActive' /\ runs' = 0
      ]_vars

\* the second run is on, and a click was turned down with the warning
\* after the worker had gone and before the reset ran
C18_Witness ==
    /\ runs = MaxStarts
    /\ is_processing
    /\ reset_pending
    /\ ~WorkerActive
    /\ start_dialog = "busy"

----------------------------------------------------------------------------
(* C19 *)

\* the application is idle: a click on the run button would be accepted
Idle == ~is_processing /\ ~reset_pending /\ ~WorkerActive /\ StartVerdict = "none"

\* C19: every started run returns the application to idle. The worker
\* leaves through its finally clause on every path (summary, no PDF files,
\* output folder not created, fatal exception), the finally clause
\* schedules the reset, and once is_processing is set it eventually is
\* cleared, with no worker left and the next click accepted.
C19_ReturnsToIdle ==
    /\ [][ (WorkerActive /\ ~WorkerActive') =>
              pc = "finally" /\ reset_pending' ]_vars
    /\ is_processing ~> Idle

\* a run that could not create its output folder is over and the reset
\* has run
C19_Witness ==
    /\ runs >= 1
    /\ Idle
    /\ dialogs # <<>>
    /\ dialogs[1].what \in {"PermissionError", "Exception"}

====
